---------------------------- MODULE Spec2Model ----------------------------
(***************************************************************************)
(* The five-round PLONK prover of src/prover.py (Prover.prove and          *)
(* round_1 .. round_5) as a state machine.                                 *)
(*                                                                         *)
(* The scalar field, the polynomial class, the commitment, the transcript  *)
(* and the compiled program are collaborators whose code is not part of    *)
(* prover.py; they are modelled from the specification over a small prime  *)
(* field (modulus 17, group order 2, coset-extended domain of size 8) so   *)
(* that every polynomial identity of the prover is computed, not assumed.  *)
(***************************************************************************)
EXTENDS Integers, Sequences, FiniteSets, TLC

(***************************************************************************)
(* Scalar field F_p (utils.Scalar)                                         *)
(***************************************************************************)
\* field modulus of the scaled-down scalar field
FieldModulus == 17
\* fixed generator of the multiplicative group of F_17
Generator == 5

\* largest non-negative witness value handed to prove
MaxVal == 2
\* the transcript's hash is one of the functions Hash(0, .) .. Hash(MaxSeed, .)
MaxSeed == 7

Scalars == 0 .. (FieldModulus - 1)

\* Scalar(x): construction from a signed integer
Scalar(x) == x % FieldModulus

FAdd(a, b) == (a + b) % FieldModulus
FSub(a, b) == (a - b) % FieldModulus
FMul(a, b) == (a * b) % FieldModulus
FNeg(a) == (FieldModulus - a) % FieldModulus

RECURSIVE FPow(_, _)
\* a ** e by repeated squaring
FPow(a, e) ==
    IF e = 0 THEN 1
    ELSE IF e % 2 = 0 THEN FPow(FMul(a, a), e \div 2)
    ELSE FMul(a, FPow(FMul(a, a), e \div 2))

\* the inverses of the non-zero scalars
Inverses == [a \in 1 .. (FieldModulus - 1) |-> FPow(a, FieldModulus - 2)]

\* inverse of a non-zero scalar; callers test the divisor first, a zero
\* divisor being an arithmetic error
FInv(a) == Inverses[a]
FDiv(a, b) == FMul(a, FInv(b))

\* the sequence f with every element evaluated
Values(f) == f \o <<>>

\* Scalar.root_of_unity(n) = g^((p-1)/n)
root_of_unity(n) == FPow(Generator, (FieldModulus - 1) \div n)
\* Scalar.roots_of_unity(n) = [w^0, ..., w^(n-1)]
roots_of_unity(n) == Values([i \in 1 .. n |-> FPow(root_of_unity(n), i - 1)])

(***************************************************************************)
(* Polynomial (poly.Polynomial): a sequence of scalars; the basis is the   *)
(* one the prover uses it in.                                              *)
(***************************************************************************)
RECURSIVE SumTo(_, _)
\* f[1] + ... + f[k] in the field
SumTo(f, k) == IF k = 0 THEN 0 ELSE FAdd(SumTo(f, k - 1), f[k])

FSum(f) == SumTo(f, Len(f))

Const(x, k) == Values([i \in 1 .. k |-> x])
PAdd(p, q) == Values([i \in 1 .. Len(p) |-> FAdd(p[i], q[i])])
PSub(p, q) == Values([i \in 1 .. Len(p) |-> FSub(p[i], q[i])])
PMul(p, q) == Values([i \in 1 .. Len(p) |-> FMul(p[i], q[i])])
PDiv(p, q) == Values([i \in 1 .. Len(p) |-> FDiv(p[i], q[i])])
\* a bare scalar promotes to a constant polynomial
PScale(p, s) == Values([i \in 1 .. Len(p) |-> FMul(p[i], s)])
PAddS(p, s) == Values([i \in 1 .. Len(p) |-> FAdd(p[i], s)])
PSubS(p, s) == Values([i \in 1 .. Len(p) |-> FSub(p[i], s)])
HasZero(p) == \E i \in 1 .. Len(p) : p[i] = 0

RECURSIVE Horner(_, _, _)
\* c[j] + x * (c[j+1] + x * (... + x * c[Len(c)]))
Horner(c, x, j) ==
    IF j > Len(c) THEN 0 ELSE FAdd(c[j], FMul(x, Horner(c, x, j + 1)))

\* value of the monomial-basis polynomial c at x
EvalCoeffs(c, x) == Horner(c, x, 1)

\* fft: monomial -> Lagrange on the Len(c)-th roots of unity
fft(c) ==
    LET w == root_of_unity(Len(c))
    IN  Values([i \in 1 .. Len(c) |-> EvalCoeffs(c, FPow(w, i - 1))])

\* ifft: Lagrange -> monomial
ifft(v) ==
    LET k == Len(v)
        winv == FInv(root_of_unity(k))
        kinv == FInv(Scalar(k))
    IN  Values([j \in 1 .. k |-> FMul(kinv, EvalCoeffs(v, FPow(winv, j - 1)))])

\* to_coset_extended_lagrange: iFFT, scale coefficient i by h^i, zero-pad to
\* four times the size, FFT
to_coset_extended_lagrange(v, h) ==
    LET c == ifft(v)
        k == Len(v)
        padded == Values([j \in 1 .. 4 * k |->
                            IF j <= k THEN FMul(c[j], FPow(h, j - 1)) ELSE 0])
    IN  fft(padded)

\* coset_extended_lagrange_to_coeffs: iFFT then unscale coefficient i by h^i
coset_extended_lagrange_to_coeffs(v, h) ==
    LET c == ifft(v)
    IN  Values([j \in 1 .. Len(v) |-> FDiv(c[j], FPow(h, j - 1))])

\* barycentric evaluation of a Lagrange-basis polynomial at z, with direct
\* lookup when z is one of the roots of unity
barycentric_eval(v, z) ==
    LET k == Len(v)
        roots == roots_of_unity(k)
    IN  IF \E i \in 1 .. k : roots[i] = z
        THEN v[CHOOSE i \in 1 .. k : roots[i] = z]
        ELSE FMul(FDiv(FSub(FPow(z, k), 1), Scalar(k)),
                  FSum([i \in 1 .. k |->
                          FDiv(FMul(v[i], roots[i]), FSub(z, roots[i]))]))

\* shift(1): cyclic left rotation of the values
shift1(v) == Values([i \in 1 .. Len(v) |-> v[(i % Len(v)) + 1]])

(***************************************************************************)
(* Compiled programs (compiler.program.Program) and their common           *)
(* preprocessed input.  Cell k of the 3n wire cells is column              *)
(* (k-1) \div n + 1 (A, B, C) at row (k-1) % n + 1; sigma is the copy      *)
(* permutation on cells.                                                   *)
(***************************************************************************)
None == "None"

\* S_col in LAGRANGE(n): the image cell of (col, row) under sigma, encoded
\* as (coset identifier of its column) * w^(its row)
SPoly(sigma, n, col) ==
    [row \in 1 .. n |->
        LET target == sigma[(col - 1) * n + row]
            tcol == ((target - 1) \div n) + 1
            trow == ((target - 1) % n) + 1
        IN  FMul(tcol, roots_of_unity(n)[trow])]

MakeProgram(name, wires, public, QL, QR, QM, QO, QC, sigma) ==
    [name |-> name, group_order |-> Len(QL), wires |-> wires,
     public_vars |-> public,
     QL |-> QL, QR |-> QR, QM |-> QM, QO |-> QO, QC |-> QC,
     S1 |-> SPoly(sigma, Len(QL), 1),
     S2 |-> SPoly(sigma, Len(QL), 2),
     S3 |-> SPoly(sigma, Len(QL), 3)]

Wire(l, r, o) == [L |-> l, R |-> r, O |-> o]

\* one gate c <== a * b; the second row is padding, its cells linked among
\* themselves
MulProgram ==
    MakeProgram("mul", <<Wire("a", "b", "c")>>, <<>>,
                <<0, 0>>, <<0, 0>>, <<1, 0>>, <<16, 0>>, <<0, 0>>,
                <<1, 4, 3, 6, 5, 2>>)

\* "x public" then z <== x + y; the two uses of x are linked, and so are the
\* two unused cells of the public row
PubProgram ==
    MakeProgram("pub", <<Wire("x", None, None), Wire("x", "y", "z")>>, <<"x">>,
                <<1, 1>>, <<0, 1>>, <<0, 0>>, <<0, 16>>, <<0, 0>>,
                <<2, 1, 5, 4, 3, 6>>)

\* c <== a + a then d <== d * a, with the output cell of gate 0 (named c)
\* linked to the left input of gate 1 (named d): a copy constraint between
\* two differently named wires
ChainProgram ==
    MakeProgram("chain", <<Wire("a", "a", "c"), Wire("d", "a", "d")>>, <<>>,
                <<1, 0>>, <<1, 0>>, <<0, 1>>, <<16, 16>>, <<0, 0>>,
                <<3, 6, 4, 1, 2, 5>>)

Programs == {MulProgram, PubProgram, ChainProgram}

\* the variable names a program's wires use
VarsOf(prog) ==
    UNION {{prog.wires[i].L, prog.wires[i].R, prog.wires[i].O} :
              i \in 1 .. Len(prog.wires)} \ {None}

WitnessValues == (-1) .. MaxVal

\* the witnesses handed to prove: every variable of the program assigned,
\* the None entry absent or 0
Witnesses(prog) ==
    [VarsOf(prog) -> WitnessValues]
      \cup {(None :> 0) @@ w : w \in [VarsOf(prog) -> WitnessValues]}

(***************************************************************************)
(* Setup.commit: [P(tau)]_1, the group G1 written additively as Z_p with   *)
(* generator 1, so that the commitment is the scalar P(tau).               *)
(***************************************************************************)
Tau == 7

\* commit of a Lagrange-basis polynomial: iFFT to monomial form first
commit(v) == EvalCoeffs(ifft(v), Tau)

(***************************************************************************)
(* Transcript: an append-only log; a challenge is a deterministic function *)
(* of the log so far and of a per-challenge label.                         *)
(***************************************************************************)
Item(label, data) == [label |-> label, data |-> data]

LabelCode(label) ==
    CASE label = "beta" -> 1
      [] label = "gamma" -> 2
      [] label = "alpha" -> 3
      [] label = "fft_cofactor" -> 4
      [] label = "zeta" -> 5
      [] label = "v" -> 6

RECURSIVE Absorbed(_, _, _)
\* the sponge state after the first k items of the log
Absorbed(seed, log, k) ==
    IF k = 0 THEN Scalar(seed + 1)
    ELSE FAdd(FMul(Absorbed(seed, log, k - 1), 3), FAdd(log[k].data, k))

\* the hash of the log under a domain-separation label, reduced mod p
Hash(seed, log, label) ==
    FAdd(FPow(FAdd(Absorbed(seed, log, Len(log)), LabelCode(label)), 3),
         FMul(Scalar(seed), LabelCode(label)))

\* a challenge that the transcript guarantees to be non-zero
HashNonZero(seed, log, label) == (Hash(seed, log, label) % (FieldModulus - 1)) + 1

\* Transcript(b"plonk")
NewTranscript == <<Item("plonk", 0)>>

(***************************************************************************)
(* Prover helpers                                                          *)
(***************************************************************************)
\* rlc on scalars: term_1 + term_2 * beta + gamma
rlc(s, term_1, term_2) == FAdd(FAdd(term_1, FMul(term_2, s.beta)), s.gamma)

\* rlc on polynomials of one basis and size
rlcP(s, term_1, term_2) == PAddS(PAdd(term_1, PScale(term_2, s.beta)), s.gamma)

fft_expand(s, x) == to_coset_extended_lagrange(x, s.fft_cofactor)

expanded_evals_to_coeffs(s, x) == coset_extended_lagrange_to_coeffs(x, s.fft_cofactor)

\* assignment of attributes to the prover object; "written" collects the
\* names a round has assigned so far
Assign(s, attrs) == attrs @@ [s EXCEPT !.written = @ \cup DOMAIN attrs]

\* the object as a round finds it on entry, nothing written yet
Enter(s) == ("written" :> {}) @@ s

\* the attributes of the object proper
Attrs(s) == [a \in DOMAIN s \ {"written"} |-> s[a]]

\* what a round hands back to prove: the object as the round left it, the
\* exception that ended the round ("ok" when it returned) and its message
Outcome(s, fail, msg) == [self |-> s, fail |-> fail, msg |-> msg]

AssertionError == "AssertionError"
ZeroDivisionError == "ZeroDivisionError"

\* PublicInputs with the public values entered unnegated
PublicInputsUnnegated(prog, w) ==
    [i \in 1 .. prog.group_order |->
        IF i <= Len(prog.public_vars)
        THEN Scalar(w[prog.public_vars[i]])
        ELSE Scalar(0)]

\* the public-inputs polynomial of prove
PublicInputs(prog, w) ==
    [i \in 1 .. prog.group_order |->
        IF i <= Len(prog.public_vars)
        THEN Scalar(-w[prog.public_vars[i]])
        ELSE Scalar(0)]

\* left-hand side of the gate constraint on LAGRANGE(n)
GateExpr(prog, A, B, C, PI) ==
    PAdd(PAdd(PAdd(PAdd(PAdd(PMul(A, prog.QL), PMul(B, prog.QR)),
                        PMul(PMul(A, B), prog.QM)),
                   PMul(C, prog.QO)),
              PI),
         prog.QC)

\* Round1 without the gate-constraint sanity check
Round1Unchecked(s, prog, w) ==
    LET n == prog.group_order
        wires == prog.wires
        A == Values([i \in 1 .. n |-> IF i <= Len(wires) THEN Scalar(w[wires[i].L])
                                     ELSE Scalar(0)])
        B == Values([i \in 1 .. n |-> IF i <= Len(wires) THEN Scalar(w[wires[i].R])
                                     ELSE Scalar(0)])
        C == Values([i \in 1 .. n |-> IF i <= Len(wires) THEN Scalar(w[wires[i].O])
                                     ELSE Scalar(0)])
    IN  Outcome(Assign(s, [A |-> A, B |-> B, C |-> C]), "ok",
                [a_1 |-> commit(A), b_1 |-> commit(B), c_1 |-> commit(C)])

Round1(s, prog, w) ==
    LET n == prog.group_order
        wires == prog.wires
        A == Values([i \in 1 .. n |-> IF i <= Len(wires) THEN Scalar(w[wires[i].L])
                                     ELSE Scalar(0)])
        B == Values([i \in 1 .. n |-> IF i <= Len(wires) THEN Scalar(w[wires[i].R])
                                     ELSE Scalar(0)])
        C == Values([i \in 1 .. n |-> IF i <= Len(wires) THEN Scalar(w[wires[i].O])
                                     ELSE Scalar(0)])
        s1 == Assign(s, [A |-> A, B |-> B, C |-> C])
        msg == [a_1 |-> commit(A), b_1 |-> commit(B), c_1 |-> commit(C)]
    IN  IF GateExpr(prog, A, B, C, s.PI) = Const(0, n)
        THEN Outcome(s1, "ok", msg)
        ELSE Outcome(s1, AssertionError, <<>>)

\* numerator and denominator of the i-th factor of the grand product
PermNum(s, prog, i) ==
    LET w == roots_of_unity(prog.group_order)
    IN  FMul(FMul(rlc(s, s.A[i], w[i]), rlc(s, s.B[i], FMul(2, w[i]))),
             rlc(s, s.C[i], FMul(3, w[i])))

PermDen(s, prog, i) ==
    FMul(FMul(rlc(s, s.A[i], prog.S1[i]), rlc(s, s.B[i], prog.S2[i])),
         rlc(s, s.C[i], prog.S3[i]))

RECURSIVE ZValue(_, _, _)
\* Z_values[k] of the accumulation loop, k = 0 .. n
ZValue(s, prog, k) ==
    IF k = 0 THEN Scalar(1)
    ELSE FMul(ZValue(s, prog, k - 1), FDiv(PermNum(s, prog, k), PermDen(s, prog, k)))

\* Round2 without the closure and recurrence assertions
Round2Unchecked(s, prog) ==
    LET n == prog.group_order
        Z_values == Values([k \in 1 .. n |-> ZValue(s, prog, k - 1)])
    IN  IF \E i \in 1 .. n : PermDen(s, prog, i) = 0
        THEN Outcome(s, ZeroDivisionError, <<>>)
        ELSE Outcome(Assign(s, [Z |-> Z_values]), "ok", [z_1 |-> commit(Z_values)])

\* Round2 keeping Z_1 .. Z_n: the first accumulator value dropped instead of
\* the last
Round2PopFirst(s, prog) ==
    LET n == prog.group_order
        Z_all == Values([k \in 1 .. n + 1 |-> ZValue(s, prog, k - 1)])
        Z_values == SubSeq(Z_all, 2, n + 1)
    IN  IF \E i \in 1 .. n : PermDen(s, prog, i) = 0
        THEN Outcome(s, ZeroDivisionError, <<>>)
        ELSE IF Z_all[n + 1] # 1
        THEN Outcome(s, AssertionError, <<>>)
        ELSE Outcome(Assign(s, [Z |-> Z_values]), "ok", [z_1 |-> commit(Z_values)])

Round2(s, prog) ==
    LET n == prog.group_order
        Z_all == Values([k \in 1 .. n + 1 |-> ZValue(s, prog, k - 1)])
        Z_values == SubSeq(Z_all, 1, n)
        sane == \A i \in 1 .. n :
                  FSub(FMul(PermNum(s, prog, i), Z_values[i]),
                       FMul(PermDen(s, prog, i), Z_values[(i % n) + 1])) = 0
    IN  IF \E i \in 1 .. n : PermDen(s, prog, i) = 0
        THEN Outcome(s, ZeroDivisionError, <<>>)
        ELSE IF Z_all[n + 1] # 1 \/ ~sane
        THEN Outcome(s, AssertionError, <<>>)
        ELSE Outcome(Assign(s, [Z |-> Z_values]), "ok", [z_1 |-> commit(Z_values)])

\* Z_H evaluated on the 4n-th roots of unity themselves, the coset offset
\* left out
Round3ZHOnDomain(s, prog) ==
    Values([i \in 1 .. 4 * prog.group_order |->
              FSub(FPow(Scalar(roots_of_unity(4 * prog.group_order)[i]),
                        prog.group_order), 1)])

\* self.Z_H: X^n - 1 at the points fft_cofactor * r, r a 4n-th root of unity
Round3ZH(s, prog) ==
    Values([i \in 1 .. 4 * prog.group_order |->
              FSub(FPow(FMul(Scalar(roots_of_unity(4 * prog.group_order)[i]),
                             s.fft_cofactor),
                        prog.group_order), 1)])

\* the attributes round_3 stores before its first division by Z_H
Round3Expanded(s, prog) ==
    LET n == prog.group_order
        quarter == roots_of_unity(4 * n)
        L0 == Values([i \in 1 .. n |-> IF i = 1 THEN Scalar(1) ELSE Scalar(0)])
    IN  [roots_of_unity |-> quarter,
         A_expanded |-> fft_expand(s, s.A),
         B_expanded |-> fft_expand(s, s.B),
         C_expanded |-> fft_expand(s, s.C),
         PI_expanded |-> fft_expand(s, s.PI),
         QL_expanded |-> fft_expand(s, prog.QL),
         QR_expanded |-> fft_expand(s, prog.QR),
         QM_expanded |-> fft_expand(s, prog.QM),
         QO_expanded |-> fft_expand(s, prog.QO),
         QC_expanded |-> fft_expand(s, prog.QC),
         Z_expanded |-> fft_expand(s, s.Z),
         Z_W_expanded |-> fft_expand(s, shift1(s.Z)),
         S1_expanded |-> fft_expand(s, prog.S1),
         S2_expanded |-> fft_expand(s, prog.S2),
         S3_expanded |-> fft_expand(s, prog.S3),
         Z_H |-> Round3ZH(s, prog),
         L0 |-> L0,
         L0_expanded |-> fft_expand(s, L0)]

\* numerator of self.gates in round_3, on the coset
Round3GatesNum(e) ==
    PAdd(PAdd(PAdd(PAdd(PAdd(PMul(e.A_expanded, e.QL_expanded),
                             PMul(e.B_expanded, e.QR_expanded)),
                        PMul(PMul(e.A_expanded, e.B_expanded), e.QM_expanded)),
                   PMul(e.C_expanded, e.QO_expanded)),
              e.PI_expanded),
         e.QC_expanded)

\* numerator of self.permutation_grand_product in round_3, on the coset
Round3PermNum(e) ==
    LET X == e.roots_of_unity
        h == e.fft_cofactor
        a2 == FMul(e.alpha, e.alpha)
    IN  PAdd(PSub(PScale(PMul(PMul(PMul(rlcP(e, e.A_expanded, PScale(X, h)),
                                        rlcP(e, e.B_expanded, PScale(X, FMul(2, h)))),
                                   rlcP(e, e.C_expanded, PScale(X, FMul(3, h)))),
                              e.Z_expanded),
                         e.alpha),
                  PScale(PMul(PMul(PMul(rlcP(e, e.A_expanded, e.S1_expanded),
                                        rlcP(e, e.B_expanded, e.S2_expanded)),
                                   rlcP(e, e.C_expanded, e.S3_expanded)),
                              e.Z_W_expanded),
                         e.alpha)),
             PScale(PMul(PSubS(e.Z_expanded, Scalar(1)), e.L0_expanded), a2))

\* round_3 from the split of the quotient on: T1, T2, T3, their check at
\* fft_cofactor and the commitments
Round3Split(c, prog) ==
    LET n == prog.group_order
        h == c.fft_cofactor
    IN  IF FAdd(FAdd(barycentric_eval(c.T1, h),
                     FMul(barycentric_eval(c.T2, h), FPow(h, n))),
                FMul(barycentric_eval(c.T3, h), FPow(h, 2 * n)))
           # c.QUOT_expanded[1]
        THEN Outcome(c, AssertionError, <<>>)
        ELSE Outcome(c, "ok", [t_lo_1 |-> commit(c.T1), t_mid_1 |-> commit(c.T2),
                               t_hi_1 |-> commit(c.T3)])

\* Round3Degree with the middle piece cut one coefficient too low
Round3DegreeShifted(c, prog) ==
    LET n == prog.group_order
    IN  IF SubSeq(c.QUOT_coefficients, 3 * n + 1, 4 * n) # Const(0, n)
        THEN Outcome(c, AssertionError, <<>>)
        ELSE Round3Split(
                 Assign(c, [T1 |-> fft(SubSeq(c.QUOT_coefficients, 1, n)),
                            T2 |-> fft(SubSeq(c.QUOT_coefficients, n, 2 * n - 1)),
                            T3 |-> fft(SubSeq(c.QUOT_coefficients, 2 * n + 1, 3 * n))]),
                 prog)

\* round_3 from the degree check of the quotient on
Round3Degree(c, prog) ==
    LET n == prog.group_order
    IN  IF SubSeq(c.QUOT_coefficients, 3 * n + 1, 4 * n) # Const(0, n)
        THEN Outcome(c, AssertionError, <<>>)
        ELSE Round3Split(
                 Assign(c, [T1 |-> fft(SubSeq(c.QUOT_coefficients, 1, n)),
                            T2 |-> fft(SubSeq(c.QUOT_coefficients, n + 1, 2 * n)),
                            T3 |-> fft(SubSeq(c.QUOT_coefficients, 2 * n + 1, 3 * n))]),
                 prog)

\* self.QUOT_coefficients
Round3Coeffs(q, prog) ==
    Round3Degree(
        Assign(q, [QUOT_coefficients |-> expanded_evals_to_coeffs(q, q.QUOT_expanded)]),
        prog)

\* self.QUOT_expanded
Round3Quot(g, prog) ==
    Round3Coeffs(
        Assign(g, [QUOT_expanded |-> PAdd(g.gates, g.permutation_grand_product)]),
        prog)

\* round_3 from its first division by Z_H on
Round3Divide(e, prog) ==
    IF HasZero(e.Z_H)
    THEN Outcome(e, ZeroDivisionError, <<>>)
    ELSE Round3Quot(
             Assign(e, [gates |-> PDiv(Round3GatesNum(e), e.Z_H),
                        roots_of_unity_polynomial |-> e.roots_of_unity,
                        permutation_grand_product |-> PDiv(Round3PermNum(e), e.Z_H)]),
             prog)

Round3(s, prog) == Round3Divide(Assign(s, Round3Expanded(s, prog)), prog)

Round4(s, prog) ==
    LET evals ==
          [a_eval |-> barycentric_eval(s.A, s.zeta),
           b_eval |-> barycentric_eval(s.B, s.zeta),
           c_eval |-> barycentric_eval(s.C, s.zeta),
           s1_eval |-> barycentric_eval(prog.S1, s.zeta),
           s2_eval |-> barycentric_eval(prog.S2, s.zeta),
           z_shifted_eval |->
               barycentric_eval(s.Z, FMul(s.zeta, root_of_unity(prog.group_order)))]
    IN  Outcome(Assign(s, evals), "ok", evals)

\* self.gates of round_5
Round5Gates(s) ==
    PAdd(PAddS(PAdd(PAdd(PAdd(PScale(s.QL_expanded, s.a_eval),
                              PScale(s.QR_expanded, s.b_eval)),
                         PScale(PScale(s.QM_expanded, s.a_eval), s.b_eval)),
                    PScale(s.QO_expanded, s.c_eval)),
               s.PI_eval),
         s.QC_expanded)

\* self.permutation_grand_product of round_5; c_eval is lifted to a constant
\* polynomial on the coset
Round5Perm(s, prog) ==
    PSub(PScale(s.Z_expanded,
                FMul(FMul(rlc(s, s.a_eval, s.zeta),
                          rlc(s, s.b_eval, FMul(2, s.zeta))),
                     rlc(s, s.c_eval, FMul(3, s.zeta)))),
         PScale(PScale(PScale(rlcP(s, Const(s.c_eval, 4 * prog.group_order),
                                   s.S3_expanded),
                              rlc(s, s.a_eval, s.s1_eval)),
                       rlc(s, s.b_eval, s.s2_eval)),
                s.z_shifted_eval))

\* T_argument with the powers of zeta on T2 and T3 exchanged
Round5TSwapped(s, prog) ==
    PAdd(PAdd(s.T1_expanded,
              PScale(s.T2_expanded, FPow(s.zeta, 2 * prog.group_order))),
         PScale(s.T3_expanded, FPow(s.zeta, prog.group_order)))

\* self.T_argument
Round5T(s, prog) ==
    PAdd(PAdd(s.T1_expanded, PScale(s.T2_expanded, FPow(s.zeta, prog.group_order))),
         PScale(s.T3_expanded, FPow(s.zeta, 2 * prog.group_order)))

\* self.R_argument
Round5R(s) ==
    PSub(PAdd(PAdd(s.gates, PScale(s.permutation_grand_product, s.alpha)),
              PScale(s.permutation, FPow(s.alpha, 2))),
         PScale(s.T_argument, s.Z_H_eval))

\* numerator of W_Z_argument
Round5WzNum(s) ==
    PAdd(PAdd(PAdd(PAdd(PAdd(s.R_argument,
                             PScale(PSubS(s.A_expanded, s.a_eval), s.v)),
                        PScale(PSubS(s.B_expanded, s.b_eval), FPow(s.v, 2))),
                   PScale(PSubS(s.C_expanded, s.c_eval), FPow(s.v, 3))),
              PScale(PSubS(s.S1_expanded, s.s1_eval), FPow(s.v, 4))),
         PScale(PSubS(s.S2_expanded, s.s2_eval), FPow(s.v, 5)))

\* X - zeta and X - zeta * w on the coset
Round5WzDen(s) == PSubS(PScale(s.quarter_roots, s.fft_cofactor), s.zeta)

Round5WzwDen(s) ==
    PSubS(PScale(s.quarter_roots, s.fft_cofactor), FMul(s.root_of_unity, s.zeta))

\* whether the coefficients from index n on (the upper 3n) are all zero
HighCoeffsZero(coeffs, n) == SubSeq(coeffs, n + 1, 4 * n) = Const(0, 3 * n)

\* round_5 returns Message5(W_z_1, W_zw_1)
Round5Return(s) == Outcome(s, "ok", [W_z_1 |-> s.W_z_1, W_zw_1 |-> s.W_zw_1])

\* self.W_zw and its commitment
Round5SetWzw(s, W_zw) == Assign(Assign(s, [W_zw |-> W_zw]), [W_zw_1 |-> commit(W_zw)])

\* round_5 from the degree check of W_zw_coeffs on
Round5WzwCommit(s, W_zw_coeffs, prog) ==
    IF ~HighCoeffsZero(W_zw_coeffs, prog.group_order)
    THEN Outcome(s, AssertionError, <<>>)
    ELSE Round5Return(Round5SetWzw(s, fft(SubSeq(W_zw_coeffs, 1, prog.group_order))))

\* self.W_zw_argument and W_zw_coeffs
Round5WzwCoeffs(s, prog) ==
    Round5WzwCommit(s, expanded_evals_to_coeffs(s, s.W_zw_argument), prog)

\* round_5 from W_zw_argument on
Round5Wzw(s, prog) ==
    IF HasZero(Round5WzwDen(s))
    THEN Outcome(s, ZeroDivisionError, <<>>)
    ELSE Round5WzwCoeffs(
             Assign(s, [W_zw_argument |->
                            PDiv(PSubS(s.Z_expanded, s.z_shifted_eval),
                                 Round5WzwDen(s))]),
             prog)

\* self.W_z and its commitment
Round5SetWz(s, W_z) == Assign(Assign(s, [W_z |-> W_z]), [W_z_1 |-> commit(W_z)])

\* round_5 from the degree check of W_z_coeffs on
Round5WzCommit(s, W_z_coeffs, prog) ==
    IF ~HighCoeffsZero(W_z_coeffs, prog.group_order)
    THEN Outcome(s, AssertionError, <<>>)
    ELSE Round5Wzw(Round5SetWz(s, fft(SubSeq(W_z_coeffs, 1, prog.group_order))), prog)

Round5WzCoeffs(s, prog) ==
    Round5WzCommit(s, expanded_evals_to_coeffs(s, s.W_Z_argument), prog)

\* round_5 from W_Z_argument on
Round5Wz(s, prog) ==
    IF HasZero(Round5WzDen(s))
    THEN Outcome(s, ZeroDivisionError, <<>>)
    ELSE Round5WzCoeffs(
             Assign(s, [W_Z_argument |-> PDiv(Round5WzNum(s), Round5WzDen(s))]),
             prog)

\* round_5 from the sanity check R(zeta) = 0 on
Round5Check(s, prog) ==
    IF barycentric_eval(s.R, s.zeta) # 0
    THEN Outcome(s, AssertionError, <<>>)
    ELSE Round5Wz(
             Assign(s, [quarter_roots |-> s.roots_of_unity,
                        root_of_unity |-> root_of_unity(prog.group_order)]),
             prog)

\* self.R and its commitment
Round5SetR(s, R) == Assign(Assign(s, [R |-> R]), [R_commit |-> commit(R)])

\* round_5 from the degree check of R_coeffs on
Round5Open(s, R_coeffs, prog) ==
    IF ~HighCoeffsZero(R_coeffs, prog.group_order)
    THEN Outcome(s, AssertionError, <<>>)
    ELSE Round5Check(Round5SetR(s, fft(SubSeq(R_coeffs, 1, prog.group_order))), prog)

\* the evaluations at zeta and the expanded T1, T2, T3
Round5Evals(s, prog) ==
    Assign(s, [L0_eval |-> barycentric_eval(s.L0, s.zeta),
               Z_H_eval |-> FSub(FPow(s.zeta, prog.group_order), 1),
               T1_expanded |-> fft_expand(s, s.T1),
               T2_expanded |-> fft_expand(s, s.T2),
               T3_expanded |-> fft_expand(s, s.T3),
               PI_eval |-> barycentric_eval(s.PI, s.zeta)])

\* the terms of the linearization polynomial
Round5Terms(s, prog) ==
    Assign(s, [gates |-> Round5Gates(s),
               permutation_grand_product |-> Round5Perm(s, prog),
               permutation |-> PScale(PSubS(s.Z_expanded, Scalar(1)), s.L0_eval),
               T_argument |-> Round5T(s, prog)])

\* self.R_argument and R_coeffs
Round5Linearize(s, prog) ==
    Round5Open(Assign(s, [R_argument |-> Round5R(s)]),
               expanded_evals_to_coeffs(s, Round5R(s)), prog)

Round5(s, prog) == Round5Linearize(Round5Terms(Round5Evals(s, prog), prog), prog)

\* round_1 inserts the None entry when the witness lacks it
WithNone(w) == IF None \in DOMAIN w THEN w ELSE (None :> 0) @@ w

\* Proof.flatten of Proof(msg_1, ..., msg_5)
Proof(m) ==
    [a_1 |-> m.msg_1.a_1, b_1 |-> m.msg_1.b_1, c_1 |-> m.msg_1.c_1,
     z_1 |-> m.msg_2.z_1,
     t_lo_1 |-> m.msg_3.t_lo_1, t_mid_1 |-> m.msg_3.t_mid_1,
     t_hi_1 |-> m.msg_3.t_hi_1,
     a_eval |-> m.msg_4.a_eval, b_eval |-> m.msg_4.b_eval,
     c_eval |-> m.msg_4.c_eval, s1_eval |-> m.msg_4.s1_eval,
     s2_eval |-> m.msg_4.s2_eval, z_shifted_eval |-> m.msg_4.z_shifted_eval,
     W_z_1 |-> m.msg_5.W_z_1, W_zw_1 |-> m.msg_5.W_zw_1]

(***************************************************************************)
(* State                                                                   *)
(***************************************************************************)
VARIABLES
    seed,        \* which hash function the transcript uses
    program,     \* the program (and pk, group_order) the Prover was built with
    self,        \* the attributes of the Prover object set by prove and the rounds
    witness,     \* the witness dict of the running call
    transcript,  \* the log of the call's Transcript
    msgs,        \* msg_1 .. msg_5 of the running call, as far as returned
    pc,          \* where prove stands
    result,      \* what the latest call returned or raised
    calls,       \* how many calls of prove the object has seen
    trace,       \* the steps of the running call, in order
    writers,     \* <<attribute, step>> for every assignment of the running call
    stored3,     \* what round_3 of the running call stored
    first        \* witness and proof of the object's first call, if it returned

vars == <<seed, program, self, witness, transcript, msgs, pc, result, calls,
          trace, writers, stored3, first>>

NoObject == [a \in {} |-> 0]
NoResult == [kind |-> "none"]
Returned(proof) == [kind |-> "proof", proof |-> proof]
Raised(error, step) == [kind |-> "error", error |-> error, step |-> step]

Init ==
    /\ seed \in 0 .. MaxSeed
    /\ program \in Programs
    /\ self = NoObject
    /\ witness = NoObject
    /\ transcript = <<>>
    /\ msgs = NoObject
    /\ pc = "idle"
    /\ result = NoResult
    /\ calls = "none"
    /\ trace = <<>>
    /\ writers = {}
    /\ stored3 = NoObject
    /\ first = NoObject

\* RoundDone with the round's exception swallowed: prove goes on
RoundDoneContinuing(step, msgName, out, next, msgsBefore, traceBefore, writersBefore) ==
    /\ self' = Attrs(out.self)
    /\ trace' = Append(traceBefore, step)
    /\ writers' = writersBefore \cup {<<a, step>> : a \in out.self.written}
    /\ msgs' = IF out.fail = "ok" THEN (msgName :> out.msg) @@ msgsBefore
               ELSE msgsBefore
    /\ pc' = next
    /\ result' = IF out.fail = "ok" THEN NoResult ELSE Raised(out.fail, step)
    /\ UNCHANGED <<seed, program, first>>

\* a round has run with outcome out: prove keeps its message and goes on to
\* the transcript, or the round's exception leaves prove
RoundDone(step, msgName, out, next, msgsBefore, traceBefore, writersBefore) ==
    /\ self' = Attrs(out.self)
    /\ trace' = Append(traceBefore, step)
    /\ writers' = writersBefore \cup {<<a, step>> : a \in out.self.written}
    /\ IF out.fail = "ok"
       THEN /\ msgs' = (msgName :> out.msg) @@ msgsBefore
            /\ pc' = next
            /\ result' = NoResult
       ELSE /\ msgs' = msgsBefore
            /\ pc' = "aborted"
            /\ result' = Raised(out.fail, step)
    /\ UNCHANGED <<seed, program, first>>

\* prove with the Transcript kept on the object: a later call goes on with
\* the log of the call before it
proveOnKeptTranscript ==
    /\ pc \in {"idle", "done", "aborted"}
    /\ calls \in {"none", "one", "two"}
    /\ calls # "none" => first # NoObject
    /\ \E w \in Witnesses(program) :
        /\ calls = "two" => WithNone(w) = first.witness
        /\ witness' = WithNone(w)
        /\ RoundDone("round_1", "msg_1",
                     Round1(Enter(("PI" :> PublicInputs(program, w)) @@ self),
                            program, WithNone(w)),
                     "transcript.round_1", NoObject, <<"prove">>,
                     {<<"PI", "prove">>})
    /\ transcript' = IF calls = "none" THEN NewTranscript ELSE transcript
    /\ calls' = CASE calls = "none" -> "one" [] calls = "one" -> "two"
                  [] calls = "two" -> "three"
    /\ stored3' = NoObject

\* a call of prove, from its entry to the return of round_1: a fresh
\* transcript, the public-inputs polynomial, then msg_1 = round_1(witness).
\* Further calls are made on an object whose first call returned a proof;
\* the third call repeats the witness of the first.
prove ==
    /\ pc \in {"idle", "done", "aborted"}
    /\ calls \in {"none", "one", "two"}
    /\ calls # "none" => first # NoObject
    /\ \E w \in Witnesses(program) :
        /\ calls = "two" => WithNone(w) = first.witness
        /\ witness' = WithNone(w)
        /\ RoundDone("round_1", "msg_1",
                     Round1(Enter(("PI" :> PublicInputs(program, w)) @@ self),
                            program, WithNone(w)),
                     "transcript.round_1", NoObject, <<"prove">>,
                     {<<"PI", "prove">>})
    /\ transcript' = NewTranscript
    /\ calls' = CASE calls = "none" -> "one" [] calls = "one" -> "two"
                  [] calls = "two" -> "three"
    /\ stored3' = NoObject

\* round_2 followed at once by round_3, transcript.round_2 left out
round_2_then_round_3 ==
    /\ pc = "round_2"
    /\ RoundDone("round_2", "msg_2", Round2(Enter(self), program),
                 "round_3", msgs, trace, writers)
    /\ UNCHANGED <<witness, transcript, calls, stored3>>

round_2 ==
    /\ pc = "round_2"
    /\ RoundDone("round_2", "msg_2", Round2(Enter(self), program),
                 "transcript.round_2", msgs, trace, writers)
    /\ UNCHANGED <<witness, transcript, calls, stored3>>

round_3 ==
    /\ pc = "round_3"
    /\ LET out == Round3(Enter(self), program)
       IN  /\ RoundDone("round_3", "msg_3", out, "transcript.round_3",
                         msgs, trace, writers)
           /\ stored3' = [a \in out.self.written |-> out.self[a]]
    /\ UNCHANGED <<witness, transcript, calls>>

round_4 ==
    /\ pc = "round_4"
    /\ RoundDone("round_4", "msg_4", Round4(Enter(self), program),
                 "transcript.round_4", msgs, trace, writers)
    /\ UNCHANGED <<witness, transcript, calls, stored3>>

\* round_5 and the return of Proof(msg_1, ..., msg_5)
round_5 ==
    /\ pc = "round_5"
    /\ LET out == Round5(Enter(self), program)
           proof == Proof(("msg_5" :> out.msg) @@ msgs)
       IN  /\ self' = Attrs(out.self)
           /\ trace' = Append(trace, "round_5")
           /\ writers' = writers \cup {<<a, "round_5">> : a \in out.self.written}
           /\ IF out.fail = "ok"
              THEN /\ msgs' = ("msg_5" :> out.msg) @@ msgs
                   /\ pc' = "done"
                   /\ result' = Returned(proof)
                   /\ first' = IF calls = "one"
                               THEN [witness |-> witness, proof |-> proof]
                               ELSE first
              ELSE /\ msgs' = msgs
                   /\ pc' = "aborted"
                   /\ result' = Raised(out.fail, "round_5")
                   /\ first' = first
    /\ UNCHANGED <<seed, program, witness, transcript, calls, stored3>>

\* the transcript absorbs the items and derives the challenges named in
\* labels, each appended to the log in turn
RECURSIVE Challenges(_, _, _)
Challenges(log, labels, k) ==
    IF k = 0 THEN [log |-> log, values |-> <<>>]
    ELSE LET prev == Challenges(log, labels, k - 1)
             c == IF labels[k] \in {"alpha", "fft_cofactor"}
                  THEN HashNonZero(seed, prev.log, labels[k])
                  ELSE Hash(seed, prev.log, labels[k])
         IN  [log |-> Append(prev.log, Item(labels[k], c)),
              values |-> Append(prev.values, c)]

TranscriptDone(step, absorbed, labels, next) ==
    LET got == Challenges(transcript \o absorbed, labels, Len(labels))
    IN  /\ transcript' = got.log
        /\ self' = [k \in {labels[i] : i \in 1 .. Len(labels)} |->
                       got.values[CHOOSE i \in 1 .. Len(labels) : labels[i] = k]]
                   @@ self
        /\ writers' = writers \cup {<<labels[i], step>> : i \in 1 .. Len(labels)}
        /\ trace' = Append(trace, step)
        /\ pc' = next
        /\ UNCHANGED <<seed, program, witness, msgs, result, calls, stored3, first>>

\* self.beta, self.gamma = transcript.round_1(msg_1)
transcript_round_1 ==
    /\ pc = "transcript.round_1"
    /\ TranscriptDone("transcript.round_1",
                      <<Item("a_1", msgs.msg_1.a_1), Item("b_1", msgs.msg_1.b_1),
                        Item("c_1", msgs.msg_1.c_1)>>,
                      <<"beta", "gamma">>, "round_2")

\* self.alpha, self.fft_cofactor = transcript.round_2(msg_2)
transcript_round_2 ==
    /\ pc = "transcript.round_2"
    /\ TranscriptDone("transcript.round_2", <<Item("z_1", msgs.msg_2.z_1)>>,
                      <<"alpha", "fft_cofactor">>, "round_3")

\* self.zeta = transcript.round_3(msg_3)
transcript_round_3 ==
    /\ pc = "transcript.round_3"
    /\ TranscriptDone("transcript.round_3",
                      <<Item("t_lo_1", msgs.msg_3.t_lo_1),
                        Item("t_mid_1", msgs.msg_3.t_mid_1),
                        Item("t_hi_1", msgs.msg_3.t_hi_1)>>,
                      <<"zeta">>, "round_4")

\* self.v = transcript.round_4(msg_4)
transcript_round_4 ==
    /\ pc = "transcript.round_4"
    /\ TranscriptDone("transcript.round_4",
                      <<Item("a_eval", msgs.msg_4.a_eval),
                        Item("b_eval", msgs.msg_4.b_eval),
                        Item("c_eval", msgs.msg_4.c_eval),
                        Item("s1_eval", msgs.msg_4.s1_eval),
                        Item("s2_eval", msgs.msg_4.s2_eval),
                        Item("z_shifted_eval", msgs.msg_4.z_shifted_eval)>>,
                      <<"v">>, "round_5")

Next ==
    \/ prove
    \/ transcript_round_1
    \/ round_2
    \/ transcript_round_2
    \/ round_3
    \/ transcript_round_3
    \/ round_4
    \/ transcript_round_4
    \/ round_5

Spec == Init /\ [][Next]_vars

(***************************************************************************)
(* Properties.  The predicates below read the running call off the state:  *)
(* self.A, self.B, self.C and self.PI are the values round_1 of the        *)
(* running call stored.                                                    *)
(***************************************************************************)
Rows == 1 .. program.group_order

\* the steps of a call that returns, in order
Order ==
    <<"prove", "round_1", "transcript.round_1", "round_2", "transcript.round_2",
      "round_3", "transcript.round_3", "round_4", "transcript.round_4", "round_5">>

\* round_1 of the running call has run
Started == Len(trace) >= 2

\* round_2 of the running call has run
Round2Ran == Len(trace) >= 4

\* A_i*QL_i + B_i*QR_i + A_i*B_i*QM_i + C_i*QO_i + PI_i + QC_i at row i
GateRow(i) ==
    FAdd(FAdd(FAdd(FAdd(FAdd(FMul(self.A[i], program.QL[i]),
                             FMul(self.B[i], program.QR[i])),
                        FMul(FMul(self.A[i], self.B[i]), program.QM[i])),
                   FMul(self.C[i], program.QO[i])),
              self.PI[i]),
         program.QC[i])

GatesSatisfied == \A i \in Rows : GateRow(i) = 0

Column(col) == CASE col = 1 -> self.A [] col = 2 -> self.B [] col = 3 -> self.C
Sigma(col) == CASE col = 1 -> program.S1 [] col = 2 -> program.S2
                [] col = 3 -> program.S3

\* the identifier S1, S2, S3 use for the cell of column col at row
CellId(col, row) == FMul(col, roots_of_unity(program.group_order)[row])

\* every two cells the permutation links hold the same value
CopySatisfied ==
    \A c1 \in 1 .. 3, c2 \in 1 .. 3, r1 \in Rows, r2 \in Rows :
        Sigma(c1)[r1] = CellId(c2, r2) => Column(c1)[r1] = Column(c2)[r2]

\* term_1 + beta * term_2 + gamma with the challenges of the running call
Combine(term_1, term_2) == (term_1 + self.beta * term_2 + self.gamma) % FieldModulus

\* numerator and denominator of the grand-product factor of row i
NumAt(i) ==
    (Combine(self.A[i], CellId(1, i)) * Combine(self.B[i], CellId(2, i))
       * Combine(self.C[i], CellId(3, i))) % FieldModulus

DenAt(i) ==
    (Combine(self.A[i], program.S1[i]) * Combine(self.B[i], program.S2[i])
       * Combine(self.C[i], program.S3[i])) % FieldModulus

RECURSIVE ProductTo(_, _)
\* f[1] * ... * f[k] in the field
ProductTo(f, k) == IF k = 0 THEN 1 ELSE (ProductTo(f, k - 1) * f[k]) % FieldModulus

NumProduct == ProductTo([i \in Rows |-> NumAt(i)], program.group_order)
DenProduct == ProductTo([i \in Rows |-> DenAt(i)], program.group_order)

ProofFields ==
    {"a_1", "b_1", "c_1", "z_1", "t_lo_1", "t_mid_1", "t_hi_1", "a_eval", "b_eval",
     "c_eval", "s1_eval", "s2_eval", "z_shifted_eval", "W_z_1", "W_zw_1"}

\* the points h * mu^i of the coset the quotients are divided on
CosetPoints ==
    {FMul(self.fft_cofactor, roots_of_unity(4 * program.group_order)[i]) :
        i \in 1 .. 4 * program.group_order}

\* the challenges of the running call put a zero under the division the
\* failed round made
Collision ==
    CASE result.step = "round_2" -> \E i \in Rows : DenAt(i) = 0
      [] result.step = "round_3" ->
            FPow(self.fft_cofactor, 4 * program.group_order) = 1
      [] result.step = "round_5" ->
            \/ self.zeta \in CosetPoints
            \/ FMul(self.zeta, root_of_unity(program.group_order)) \in CosetPoints
      [] OTHER -> FALSE

\* C1 as stated: a call of prove on a witness that satisfies every gate and
\* every copy constraint never aborts.
C1_AsStated == (Started /\ GatesSatisfied /\ CopySatisfied) => pc # "aborted"

\* C1, amended: on a witness that satisfies every gate and every copy
\* constraint no assertion of prove fails; the call aborts only on a field
\* division by zero that the challenges cause (a zero denominator in round 2,
\* a zero of Z_H on the coset in round 3, zeta or zeta*w on the coset in
\* round 5), and a call that ends otherwise has run rounds 1 to 5 and
\* returned a Proof of fifteen fields.
C1_ValidWitnessProves ==
    (Started /\ GatesSatisfied /\ CopySatisfied) =>
        /\ pc = "aborted" =>
              /\ result.kind = "error"
              /\ result.error = ZeroDivisionError
              /\ Collision
        /\ pc = "done" =>
              /\ trace = Order
              /\ result.kind = "proof"
              /\ DOMAIN result.proof = ProofFields
              /\ \A f \in ProofFields : result.proof[f] \in Scalars

\* a satisfying witness of the chain program whose call returned a proof
C1_Witness ==
    /\ Started /\ GatesSatisfied /\ CopySatisfied
    /\ program.name = "chain"
    /\ witness["a"] # 0
    /\ pc = "done"
    /\ result.kind = "proof"

\* C2: when the gate expression is non-zero at some row the assertion of
\* round_1 fires, prove aborts in round 1 and round_2 is not entered; when
\* the expression is zero at every row the assertion passes and round_1
\* returns msg_1.
C2_GateCheck ==
    Started =>
        IF GatesSatisfied
        THEN /\ ~(result.kind = "error" /\ result.step = "round_1")
             /\ "msg_1" \in DOMAIN msgs
             /\ Len(trace) = 2 => pc = "transcript.round_1"
        ELSE /\ pc = "aborted"
             /\ result = Raised(AssertionError, "round_1")
             /\ trace = <<"prove", "round_1">>
             /\ msgs = NoObject

\* a call aborted by the gate check on a witness whose gate 0 is violated
C2_Witness ==
    /\ Started
    /\ GateRow(1) # 0
    /\ result = Raised(AssertionError, "round_1")

\* C3 as stated: on a witness that passes the gate check but gives different
\* values to two linked cells, round_2 always ends in the assertion Z_n = 1.
C3_AsStated ==
    (Round2Ran /\ ~CopySatisfied) =>
        /\ pc = "aborted"
        /\ result = Raised(AssertionError, "round_2")

\* C3, amended: on such a witness the closure assertion of round_2 fires
\* exactly when no denominator is zero and the product of the numerators
\* differs from the product of the denominators; a zero denominator ends
\* round_2 in the division instead, and with beta = 0 the assertion never
\* fires, the two products being equal.
C3_CopyViolation ==
    (Round2Ran /\ ~CopySatisfied) =>
        /\ result = Raised(AssertionError, "round_2")
              <=> ((\A i \in Rows : DenAt(i) # 0) /\ NumProduct # DenProduct)
        /\ result = Raised(ZeroDivisionError, "round_2")
              <=> (\E i \in Rows : DenAt(i) = 0)
        /\ self.beta = 0 => result # Raised(AssertionError, "round_2")
        /\ (result.kind = "error" /\ result.step = "round_2") =>
              (pc = "aborted" /\ Len(trace) = 4)

\* a copy-violating witness caught by the closure assertion
C3_Witness ==
    /\ Round2Ran /\ ~CopySatisfied
    /\ self.beta # 0
    /\ result = Raised(AssertionError, "round_2")

\* C4: a call of prove on an object whose first call returned a proof, made
\* with the witness of that first call, returns the same proof in all
\* fifteen fields, whatever call was made on the object in between.
C4_Deterministic ==
    (calls \in {"two", "three"} /\ witness = first.witness
       /\ pc \in {"done", "aborted"}) =>
        /\ result = Returned(first.proof)
        /\ DOMAIN result.proof = ProofFields

\* the third call of an object has returned the proof of its first
C4_Witness ==
    /\ calls = "three"
    /\ pc = "done"
    /\ result = Returned(first.proof)
    /\ \E f \in ProofFields : first.proof[f] # 0

\* the object with the attributes in names hidden
Hide(s, names) == [a \in DOMAIN s \ names |-> s[a]]

\* attribute a was assigned by step in the running call
WrittenBy(a, step) == <<a, step>> \in writers

\* the challenges round k reads have been derived, in the running call, by
\* the transcript rounds before it
Derived(k) ==
    /\ k >= 2 => WrittenBy("beta", "transcript.round_1")
                   /\ WrittenBy("gamma", "transcript.round_1")
    /\ k >= 3 => WrittenBy("alpha", "transcript.round_2")
                   /\ WrittenBy("fft_cofactor", "transcript.round_2")
    /\ k >= 4 => WrittenBy("zeta", "transcript.round_3")
    /\ k >= 5 => WrittenBy("v", "transcript.round_4")

RoundNames == <<"round_1", "round_2", "round_3", "round_4", "round_5">>
MsgNames == <<"msg_1", "msg_2", "msg_3", "msg_4", "msg_5">>

\* what a round hands to prove: the exception or the message
Handed(out) == <<out.fail, out.msg>>

\* a round does the same on the object with every challenge of a later
\* transcript round hidden
ReadsOnlyDerived ==
    /\ "msg_1" \in DOMAIN msgs =>
          Round1(Enter(Hide(self, {"beta", "gamma", "alpha", "fft_cofactor",
                                   "zeta", "v"})), program, witness).msg
            = msgs.msg_1
    /\ pc = "round_2" =>
          Handed(Round2(Enter(Hide(self, {"alpha", "fft_cofactor", "zeta", "v"})),
                        program))
            = Handed(Round2(Enter(self), program))
    /\ pc = "round_3" =>
          Handed(Round3(Enter(Hide(self, {"zeta", "v"})), program))
            = Handed(Round3(Enter(self), program))
    /\ pc = "round_4" =>
          Handed(Round4(Enter(Hide(self, {"v"})), program))
            = Handed(Round4(Enter(self), program))

\* C5: the steps of a call are an initial part of prove, round_1,
\* transcript.round_1, ..., transcript.round_4, round_5, each once and in
\* this order, and prove stands at the step after the last one run;
\* transcript.round_k runs when round k has returned msg_k and before round
\* k+1; when round k is about to run, the challenges it reads have been
\* derived by the transcript rounds before it, and it reads no challenge of
\* a later transcript round.
C5_RoundOrder ==
    /\ Len(trace) <= Len(Order)
    /\ trace = SubSeq(Order, 1, Len(trace))
    /\ pc \notin {"idle", "done", "aborted"} => pc = Order[Len(trace) + 1]
    /\ pc = "done" => trace = Order
    /\ \A k \in 1 .. 4 :
          pc = Order[2 * k + 1] => DOMAIN msgs = {MsgNames[j] : j \in 1 .. k}
    /\ \A k \in 2 .. 5 :
          pc = Order[2 * k] => /\ Derived(k)
                               /\ DOMAIN msgs = {MsgNames[j] : j \in 1 .. k - 1}
    /\ ReadsOnlyDerived

\* a later call of the object about to enter round_2, the challenges of the
\* call before it still on the object
C5_Witness ==
    /\ calls = "two"
    /\ pc = "round_2"
    /\ {"alpha", "fft_cofactor", "zeta", "v"} \subseteq DOMAIN self
    /\ Derived(2)
    /\ ~WrittenBy("alpha", "transcript.round_2")

\* the round whose exception is the result
FailedRound == CHOOSE k \in 1 .. 5 : RoundNames[k] = result.step

\* the challenges the transcript rounds before round k derive
ChallengesBefore(k) ==
    (IF k >= 2 THEN {"beta", "gamma"} ELSE {})
      \cup (IF k >= 3 THEN {"alpha", "fft_cofactor"} ELSE {})
      \cup (IF k >= 4 THEN {"zeta"} ELSE {})
      \cup (IF k >= 5 THEN {"v"} ELSE {})

\* the state of an aborted call: the result is the exception of the failing
\* round and holds no proof, the failing round is the last step and has run
\* once, the messages are those of the rounds before it and the challenges
\* in the log those of the transcript rounds before it
AbortedState ==
    /\ DOMAIN result = {"kind", "error", "step"}
    /\ result.kind = "error"
    /\ result.error \in {AssertionError, ZeroDivisionError}
    /\ result.step \in {RoundNames[k] : k \in 1 .. 5}
    /\ trace = SubSeq(Order, 1, 2 * FailedRound)
    /\ DOMAIN msgs = {MsgNames[j] : j \in 1 .. FailedRound - 1}
    /\ {transcript[i].label : i \in 1 .. Len(transcript)}
         \cap ChallengesBefore(5) = ChallengesBefore(FailedRound)

\* C6: when an assertion of a round fails or a field division by zero
\* occurs, prove stops there: the call is aborted with the exception as its
\* result and no Proof, no later round has run and no later challenge has
\* been derived, and nothing of the call runs afterwards; the only step
\* from an aborted call is a new call of prove.
C6_AbortStops ==
    [][/\ (result'.kind = "error") <=> (pc' = "aborted")
       /\ pc' = "aborted" => AbortedState'
       /\ pc = "aborted" => (calls' # calls /\ trace'[1] = "prove")]_vars

\* a call aborted by a division by zero in round_3
C6_Witness ==
    /\ pc = "aborted"
    /\ result = Raised(ZeroDivisionError, "round_3")
    /\ "msg_2" \in DOMAIN msgs

\* the labels of the items the transcript absorbs from the round messages
MessageLabels ==
    {"a_1", "b_1", "c_1", "z_1", "t_lo_1", "t_mid_1", "t_hi_1", "a_eval", "b_eval",
     "c_eval", "s1_eval", "s2_eval", "z_shifted_eval"}

\* C7 as stated: once prove has set out, the log of its transcript holds,
\* after the protocol label, an item that is neither a round message nor a
\* challenge: the commitment to the preprocessed input and the public
\* inputs.
C7_AsStated ==
    Started =>
        \E k \in 2 .. Len(transcript) :
            transcript[k].label \notin MessageLabels \cup ChallengesBefore(5)

\* C8 as stated: no attribute is assigned by two steps of a call, and what
\* round_3 stored is on the object unchanged when the call returns.
C8_AsStated ==
    /\ \A a \in DOMAIN self :
          Cardinality({i \in 1 .. Len(Order) : WrittenBy(a, Order[i])}) <= 1
    /\ pc = "done" => \A a \in DOMAIN stored3 : self[a] = stored3[a]

\* row i holds nothing but "the left wire equals the public input"
PublicRow(i) ==
    /\ program.QL[i] = 1
    /\ program.QR[i] = 0 /\ program.QM[i] = 0
    /\ program.QO[i] = 0 /\ program.QC[i] = 0

\* C9: PI has n values, the negated witness value of the i-th public
\* variable at position i and 0 elsewhere; a row that constrains its wire to
\* a public input nets to zero in the gate check exactly when the wire holds
\* the public value.
C9_PublicInputs ==
    Started =>
        /\ DOMAIN self.PI = Rows
        /\ \A i \in Rows :
              self.PI[i] = IF i <= Len(program.public_vars)
                           THEN (FieldModulus
                                   - (witness[program.public_vars[i]] % FieldModulus))
                                  % FieldModulus
                           ELSE 0
        /\ \A i \in 1 .. Len(program.public_vars) :
              PublicRow(i) =>
                  (GateRow(i) = 0
                     <=> self.A[i] = witness[program.public_vars[i]] % FieldModulus)

\* the program with a public input, called with x = 2: PI = (-2, 0)
C9_Witness ==
    /\ Started
    /\ program.name = "pub"
    /\ witness["x"] = 2
    /\ self.PI = <<15, 0>>
    /\ PublicRow(1) /\ GateRow(1) = 0

\* C10: when the copy constraints hold and no denominator is zero, round_2
\* passes its closure assertion; the Z it commits has n values Z_0 .. Z_(n-1)
\* with Z_0 = 1 and Z_((i+1) mod n) = Z_i * numerator_i / denominator_i for
\* every row i, which closes the product to 1.
C10_Accumulator ==
    /\ (Round2Ran /\ CopySatisfied /\ \A i \in Rows : DenAt(i) # 0) =>
          /\ ~(result.kind = "error" /\ result.step = "round_2")
          /\ "msg_2" \in DOMAIN msgs
    /\ "msg_2" \in DOMAIN msgs =>
          /\ DOMAIN self.Z = Rows
          /\ self.Z[1] = 1
          /\ \A i \in Rows :
                /\ DenAt(i) # 0
                /\ self.Z[(i % program.group_order) + 1]
                     = (self.Z[i] * NumAt(i) * Inverses[DenAt(i)]) % FieldModulus
          /\ NumProduct = DenProduct

\* round_2 has returned an accumulator that moves away from 1
C10_Witness ==
    /\ "msg_2" \in DOMAIN msgs
    /\ CopySatisfied
    /\ self.Z[1] = 1
    /\ self.Z[2] \notin {0, 1}

\* round_3 of the running call has run
Round3Ran == Len(trace) >= 6

\* (h * mu^(i-1))^n - 1 for the i-th point of the coset, h = fft_cofactor and
\* mu = 5^(16/4n) the primitive 4n-th root of unity
VanishingAt(i) ==
    ((((self.fft_cofactor
          * (((Generator ^ ((FieldModulus - 1) \div (4 * program.group_order)))
                % FieldModulus) ^ (i - 1)))
         % FieldModulus) ^ program.group_order) - 1) % FieldModulus

\* C11 as stated: when fft_cofactor is non-zero and fft_cofactor^n # 1, Z_H
\* is non-zero at every one of the 4n points and round_3 divides without a
\* division by zero.
C11_AsStated ==
    (Round3Ran /\ self.fft_cofactor # 0
       /\ FPow(self.fft_cofactor, program.group_order) # 1) =>
        /\ \A i \in 1 .. 4 * program.group_order : self.Z_H[i] # 0
        /\ result # Raised(ZeroDivisionError, "round_3")

\* C11, amended: Z_H holds (h*mu^i)^n - 1 at every index; it is non-zero at
\* every index exactly when h^(4n) # 1, and round_3 divides by zero exactly
\* when h^(4n) = 1; h # 0 and h^n # 1 do not suffice.
C11_VanishingNonZero ==
    Round3Ran =>
        /\ DOMAIN self.Z_H = 1 .. 4 * program.group_order
        /\ \A i \in 1 .. 4 * program.group_order : self.Z_H[i] = VanishingAt(i)
        /\ (\A i \in 1 .. 4 * program.group_order : self.Z_H[i] # 0)
              <=> FPow(self.fft_cofactor, 4 * program.group_order) # 1
        /\ result = Raised(ZeroDivisionError, "round_3")
              <=> FPow(self.fft_cofactor, 4 * program.group_order) = 1

\* round_3 has divided by a Z_H without zeros and returned msg_3
C11_Witness ==
    /\ Round3Ran
    /\ FPow(self.fft_cofactor, 4 * program.group_order) # 1
    /\ \A i \in 1 .. 4 * program.group_order : self.Z_H[i] # 0
    /\ "msg_3" \in DOMAIN msgs

RECURSIVE PolyAt(_, _, _)
\* c[1] + c[2]*x + ... + c[k]*x^(k-1) in the field
PolyAt(c, x, k) ==
    IF k = 0 THEN 0
    ELSE (PolyAt(c, x, k - 1) + c[k] * FPow(x, k - 1)) % FieldModulus

\* the value at x of a polynomial given by its values on the n-th roots of
\* unity
PieceAt(v, x) == PolyAt(ifft(v), x, Len(v))

\* the i-th point of the coset, fft_cofactor * mu^(i-1)
CosetPoint(i) ==
    FMul(self.fft_cofactor, roots_of_unity(4 * program.group_order)[i])

\* round_3 of the running call has divided by Z_H and stored the monomial
\* form of the quotient
QuotientStored == WrittenBy("QUOT_coefficients", "round_3")

=============================================================================
